---- MODULE Spec2Model ----
(***************************************************************************)
(* Model of temporal-ai-chef: the ChefWorkflow run (workflow.py), the      *)
(* activities it schedules (activities.py), the oracle-backed decision     *)
(* functions (llm_client.py) and the submitter's polling loop              *)
(* (run_chef.py).                                                          *)
(*                                                                         *)
(* Python strings are TLA+ strings; Len, \o and SubSeq act on them, so the *)
(* keyword tests, strip, split and join below are computed character by    *)
(* character.  Python's None is the empty tuple and a present value v is   *)
(* the one-element tuple <<v>>.                                            *)
(***************************************************************************)
EXTENDS Naturals, Integers, Sequences, FiniteSets, TLC

VARIABLES
    input,             \* ChefWorkflowInput handed to run (recipe)
    data,              \* contents of data/tools.json and data/ingredients.json
    worker,            \* the worker polling chef-task-queue: where it is built, what it registers
    state,             \* self._state, the WorkflowState record
    pc,                \* the await at which run is suspended
    tools,             \* local `tools` of run
    ingredients,       \* local `ingredients` of run
    tool,              \* local `tool` of the current loop iteration
    step_ingredients,  \* local `step_ingredients` of the current iteration
    tool_input,        \* ToolUsageInput built for the pending use_tool call
    result,            \* what the submitter gets from handle.result()
    log,               \* run's calls, their outcomes and its step_status writes, in order
    history,           \* the outcomes delivered to run so far, as the server records them
    attempts,          \* executions of the pending activity and of the last delivered one
    call,              \* last direct call of a decision strategy (StrategySpec)
    obs_pc,            \* where the submitter's polling loop stands
    snap,              \* the WorkflowState the last answered query gave the submitter
    received,          \* what handle.result() handed to the submitter
    query_error,       \* whether the submitter's last query raised
    plan_displayed     \* the submitter's flag of that name: the plan was shown

\* the submitter's variables
observer == <<obs_pc, snap, received, query_error, plan_displayed>>

vars == <<input, data, worker, state, pc, tools, ingredients, tool, step_ingredients,
          tool_input, result, log, history, attempts, call, observer>>

None == <<>>
Some(v) == <<v>>

----------------------------------------------------------------------------
(* Python str and list operations used by the source.  Loops are local      *)
(* functions of an index, so that each is evaluated in time linear in the   *)
(* length of its argument.                                                  *)

\* F applied to the value of e, which is evaluated once
Let(e, F(_)) == CHOOSE r \in {F(x) : x \in {e}} : TRUE

Chr(s, k) == SubSeq(s, k, k)

UpperAlpha == "ABCDEFGHIJKLMNOPQRSTUVWXYZ"
LowerAlpha == "abcdefghijklmnopqrstuvwxyz"
Digits == "0123456789"
\* the characters str.strip() removes, of those a string of this module can
\* hold: space, tab, line feed, carriage return, form feed, and, written raw
\* after them, the vertical tab (code 11) and the separators of codes 28 to 31
Whitespace == " \t\n\r\f"

\* c in chars, for a one-character string c
CharIn(c, chars) == \E k \in 1..Len(chars) : Chr(chars, k) = c

LowerChar(c) ==
    IF CharIn(c, UpperAlpha)
    THEN Chr(LowerAlpha, CHOOSE k \in 1..Len(UpperAlpha) : Chr(UpperAlpha, k) = c)
    ELSE c

\* s.lower()
Lower(s) ==
    Let(s, LAMBDA t :
        LET F[k \in 1..(Len(t) + 1)] ==
                IF k > Len(t) THEN "" ELSE LowerChar(Chr(t, k)) \o F[k + 1]
        IN  F[1])

\* sub in s
Contains(s, sub) ==
    \E t \in {s} : \E k \in 1..(Len(t) + 1) :
        k + Len(sub) - 1 <= Len(t) /\ SubSeq(t, k, k + Len(sub) - 1) = sub

\* s.startswith(p)
StartsWith(s, p) == Len(p) <= Len(s) /\ SubSeq(s, 1, Len(p)) = p

\* s.lstrip(chars)
LStripChars(s, chars) ==
    Let(s, LAMBDA t :
        LET first == CHOOSE k \in 1..(Len(t) + 1) :
                        /\ k > Len(t) \/ ~CharIn(Chr(t, k), chars)
                        /\ \A j \in 1..(k - 1) : CharIn(Chr(t, j), chars)
        IN  SubSeq(t, first, Len(t)))

\* s.rstrip(chars)
RStripChars(s, chars) ==
    Let(s, LAMBDA t :
        LET last == CHOOSE k \in 0..Len(t) :
                        /\ k = 0 \/ ~CharIn(Chr(t, k), chars)
                        /\ \A j \in (k + 1)..Len(t) : CharIn(Chr(t, j), chars)
        IN  SubSeq(t, 1, last))

\* s.strip()
Strip(s) == RStripChars(LStripChars(s, Whitespace), Whitespace)

\* s.split(sep) for a one-character sep: the pieces between the occurrences
\* of sep, F[k] being the split of s[k..] 
Split(s, sep) ==
    Let(s, LAMBDA t :
        LET F[k \in 1..(Len(t) + 1)] ==
                IF \E e \in k..Len(t) : Chr(t, e) = sep
                THEN LET e == CHOOSE e \in k..Len(t) :
                                Chr(t, e) = sep /\ \A j \in k..(e - 1) : Chr(t, j) # sep
                     IN  <<SubSeq(t, k, e - 1)>> \o F[e + 1]
                ELSE <<SubSeq(t, k, Len(t))>>
        IN  F[1])

\* s.split(sep, 1)[-1] for a one-character sep
AfterFirst(s, sep) ==
    Let(s, LAMBDA t :
        IF \E e \in 1..Len(t) : Chr(t, e) = sep
        THEN LET e == CHOOSE e \in 1..Len(t) :
                        Chr(t, e) = sep /\ \A j \in 1..(e - 1) : Chr(t, j) # sep
             IN  SubSeq(t, e + 1, Len(t))
        ELSE t)

\* sep.join(xs)
Join(sep, xs) ==
    Let(xs, LAMBDA ys :
        LET F[k \in 1..(Len(ys) + 1)] ==
                IF k > Len(ys) THEN ""
                ELSE IF k = Len(ys) THEN ys[k]
                ELSE ys[k] \o sep \o F[k + 1]
        IN  F[1])

\* x in xs, for a list xs
InList(x, xs) == \E k \in 1..Len(xs) : xs[k] = x

\* [F(x) for x in xs if F(x) is not None], F giving None or <<value>>
MapSome(xs, F(_)) ==
    Let(xs, LAMBDA ys :
        LET G[k \in 1..(Len(ys) + 1)] == IF k > Len(ys) THEN <<>> ELSE F(ys[k]) \o G[k + 1]
        IN  G[1])

----------------------------------------------------------------------------
(* Outcomes of a Python call: a returned value or a raised exception *)

Return(v) == [exc |-> FALSE, val |-> v]
Raise == [exc |-> TRUE, val |-> None]

\* truth value of an Optional[str] or Optional[List]: None, "" and [] are falsy
Truthy(opt) == opt # None /\ Len(opt[1]) > 0

(* What one use of the oracle does.                                         *)
(*   absent        get_openai_client returns None (no key, no openai)       *)
(*   client_raises the OpenAI constructor raises, outside the inner try     *)
(*   raises        client.chat.completions.create raises                    *)
(*   no_choices    the response has an empty choices list                   *)
(*   text          choices[0].message.content is `content` (may be empty)   *)
OracleKinds == {"absent", "client_raises", "raises", "no_choices", "text"}

Oracle(kind, content) == [kind |-> kind, content |-> content]

\* response.choices and response.choices[0].message.content
HasContent(o) == o.kind = "text" /\ Len(o.content) > 0

----------------------------------------------------------------------------
(* llm_client.py *)

\* the step parsed from one line of the plan response, None when it yields none
ParsePlanLine(raw) ==
    Let(Strip(raw), LAMBDA line :
        IF Len(line) > 0 /\ (CharIn(Chr(line, 1), Digits) \/ StartsWith(line, "-"))
        THEN LET step == IF Contains(line, ".")
                         THEN Strip(AfterFirst(line, "."))
                         ELSE Strip(LStripChars(line, "- "))
             IN  IF Len(step) > 0 THEN Some(step) ELSE None
        ELSE None)

\* the steps parsed from the response content
ParsePlan(content) == MapSome(Split(Strip(content), "\n"), ParsePlanLine)

generate_plan_with_llm(recipe, tls, ings, o) ==
    IF o.kind = "absent" THEN Return(None)
    ELSE IF o.kind = "client_raises" THEN Raise
    ELSE IF o.kind = "raises" THEN Return(None)
    ELSE IF HasContent(o)
         THEN LET steps == ParsePlan(o.content)
              IN  Return(IF Len(steps) > 0 THEN Some(steps) ELSE None)
         ELSE Return(None)

\* select_tool_with_llm matching the answer to the catalog without regard to case
select_tool_with_llm_IgnoresCase(step, tls, o) ==
    IF o.kind = "absent" THEN Return(None)
    ELSE IF o.kind = "client_raises" THEN Raise
    ELSE IF o.kind = "raises" THEN Return(None)
    ELSE IF HasContent(o)
         THEN LET selected_tool == Lower(Strip(o.content))
                  matching == SelectSeq(tls, LAMBDA t : Lower(t) = selected_tool)
              IN  Return(IF Len(matching) > 0 THEN Some(matching[1]) ELSE None)
         ELSE Return(None)

\* select_tool_with_llm without the catalog test of line 131
select_tool_with_llm_Unvalidated(step, tls, o) ==
    IF o.kind = "absent" THEN Return(None)
    ELSE IF o.kind = "client_raises" THEN Raise
    ELSE IF o.kind = "raises" THEN Return(None)
    ELSE IF HasContent(o) THEN Return(Some(Strip(o.content)))
    ELSE Return(None)

select_tool_with_llm(step, tls, o) ==
    IF o.kind = "absent" THEN Return(None)
    ELSE IF o.kind = "client_raises" THEN Raise
    ELSE IF o.kind = "raises" THEN Return(None)
    ELSE IF HasContent(o)
         THEN LET selected_tool == Strip(o.content)
              IN  Return(IF InList(selected_tool, tls) THEN Some(selected_tool) ELSE None)
         ELSE Return(None)

\* the fixed text of the prompt before the step (line 161)
PromptHead ==
    "Identify ONLY the ingredients that are actively used, handled, "
    \o "or manipulated in this specific cooking step: \""

\* lines 152-153, up to the list of previous steps
ContextOpening ==
    "\n"
    \o "COOKING CONTEXT:\n"
    \o "Steps already completed: "

\* lines 154-156, between the list of previous steps and the current step
ContextCurrent ==
    "\n"
    \o "\n"
    \o "Current step being executed: "

\* lines 156-159, after the current step
ContextClosing ==
    "\n"
    \o "\n"
    \o "IMPORTANT: Focus ONLY on ingredients used in the current step "
    \o "above. Do not include ingredients from previous steps unless "
    \o "they are specifically mentioned in the current step.\n"

\* lines 164-182, the fixed text after the ingredient list; the arrows of the
\* examples, outside TLA+'s character set, are written ->
PromptTail ==
    "\n"
    \o "\n"
    \o "CRITICAL RULES:\n"
    \o "1. ONLY include ingredients explicitly mentioned in THIS step\n"
    \o "2. DO NOT include ingredients from previous steps unless they "
    \o "are specifically named in this step  \n"
    \o "3. DO NOT assume ingredients are \"available\" from previous work\n"
    \o "4. Focus on what is being done RIGHT NOW in this step\n"
    \o "\n"
    \o "Clear Examples:\n"
    \o "\"Grill the chicken breasts until fully cooked\" -> Chicken Breast\n"
    \o "\"Prepare croutons by tossing bread cubes with olive oil, salt, "
    \o "and black pepper\" -> Bread, Olive Oil, Salt, Black Pepper  \n"
    \o "\"Blend together a dressing using Parmesan cheese, garlic, lemon "
    \o "juice, Dijon mustard, olive oil, and salt\" -> Parmesan, Garlic, "
    \o "Lemon, Dijon Mustard, Olive Oil, Salt\n"
    \o "\"Toss chopped lettuce with the prepared dressing\" -> Lettuce\n"
    \o "\"Assemble the salad by layering the dressed lettuce with sliced "
    \o "grilled chicken, croutons, and additional grated Parmesan cheese\" "
    \o "-> Parmesan\n"
    \o "\n"
    \o "BAD Examples (what NOT to do):\n"
    \o "- If step says \"blend dressing with garlic\" but mentions bread "
    \o "from previous step -> DO NOT include Bread\n"
    \o "- If step says \"toss lettuce\" but doesn't mention chicken -> "
    \o "DO NOT include Chicken Breast\n"
    \o "\n"
    \o "Return ONLY ingredients specifically mentioned in this step, "
    \o "separated by commas:"

\* str(n) for a natural number n
RECURSIVE Str(_)
Str(n) == IF n < 10 THEN Chr(Digits, n + 1) ELSE Str(n \div 10) \o Chr(Digits, (n % 10) + 1)

\* xs[:n] for n >= 0
Take(xs, n) == SubSeq(xs, 1, IF n < Len(xs) THEN n ELSE Len(xs))

\* f"Step {i+1}: {s}" for i, s in enumerate(steps)
StepLabels(steps) == [k \in 1..Len(steps) |-> "Step " \o Str(k) \o ": " \o steps[k]]

\* IngredientsContext listing the whole plan as completed
IngredientsContext_WholePlan(step, plan_context, step_index) ==
    IF Len(plan_context) > 0 /\ step_index > 0
    THEN ContextOpening \o Join(", ", StepLabels(plan_context))
            \o ContextCurrent \o "Step " \o Str(step_index + 1) \o ": " \o step
            \o ContextClosing
    ELSE ""

\* lines 149-159: context_str
IngredientsContext(step, plan_context, step_index) ==
    IF Len(plan_context) > 0 /\ step_index > 0
    THEN LET previous_steps == Take(plan_context, step_index)
         IN  ContextOpening \o Join(", ", StepLabels(previous_steps))
                \o ContextCurrent \o "Step " \o Str(step_index + 1) \o ": " \o step
                \o ContextClosing
    ELSE ""

\* lines 146-182: the prompt sent to the oracle
IngredientsPrompt(step, ings, plan_context, step_index) ==
    PromptHead \o step \o "\"\n" \o IngredientsContext(step, plan_context, step_index)
        \o "\nAvailable ingredients: " \o Join(", ", ings) \o PromptTail

\* [ing.strip() for ing in parts if ing.strip()]
StripNonEmpty(parts) ==
    MapSome(parts, LAMBDA ing : IF Len(Strip(ing)) > 0 THEN Some(Strip(ing)) ELSE None)

\* select_ingredients_with_llm giving up when any entry is outside the catalog
select_ingredients_with_llm_AllOrNothing(step, ings, plan_context, step_index, o) ==
    IF o.kind = "absent" THEN Return(None)
    ELSE IF o.kind = "client_raises" THEN Raise
    ELSE IF o.kind = "raises" THEN Return(None)
    ELSE IF HasContent(o)
         THEN LET selected_text == Strip(o.content)
                  selected_ingredients == StripNonEmpty(Split(selected_text, ","))
                  valid_ingredients ==
                      SelectSeq(selected_ingredients, LAMBDA ing : InList(ing, ings))
              IN  Return(IF Len(valid_ingredients) > 0
                            /\ Len(valid_ingredients) = Len(selected_ingredients)
                         THEN Some(valid_ingredients) ELSE None)
         ELSE Return(None)

\* lines 139-211
select_ingredients_with_llm(step, ings, plan_context, step_index, o) ==
    IF o.kind = "absent" THEN Return(None)
    ELSE IF o.kind = "client_raises" THEN Raise
    ELSE IF o.kind = "raises" THEN Return(None)
    ELSE IF HasContent(o)
         THEN LET selected_text == Strip(o.content)
                  selected_ingredients == StripNonEmpty(Split(selected_text, ","))
                  valid_ingredients ==
                      SelectSeq(selected_ingredients, LAMBDA ing : InList(ing, ings))
              IN  Return(IF Len(valid_ingredients) > 0 THEN Some(valid_ingredients) ELSE None)
         ELSE Return(None)

----------------------------------------------------------------------------
(* activities.py *)

\* _get_mock_plan with no default plan
_get_mock_plan_EmptyDefault(recipe) ==
    Let(Lower(recipe), LAMBDA r :
        IF Contains(r, "chicken parm") \/ Contains(r, "chicken parmesan")
        THEN <<"Pound and bread the chicken", "Pan-fry until golden brown",
               "Assemble with sauce and cheese", "Bake until cheese melts">>
        ELSE IF Contains(r, "pasta")
        THEN <<"Boil pasta in salted water", "Prepare the sauce",
               "Combine pasta with sauce", "Serve with cheese">>
        ELSE IF Contains(r, "toast")
        THEN <<"Whisk eggs with milk and spices", "Dip bread slices in mixture",
               "Cook in buttered skillet until golden", "Serve with syrup">>
        ELSE <<>>)

_get_mock_plan(recipe) ==
    Let(Lower(recipe), LAMBDA r :
        IF Contains(r, "chicken parm") \/ Contains(r, "chicken parmesan")
        THEN <<"Pound and bread the chicken", "Pan-fry until golden brown",
               "Assemble with sauce and cheese", "Bake until cheese melts">>
        ELSE IF Contains(r, "pasta")
        THEN <<"Boil pasta in salted water", "Prepare the sauce",
               "Combine pasta with sauce", "Serve with cheese">>
        ELSE IF Contains(r, "toast")
        THEN <<"Whisk eggs with milk and spices", "Dip bread slices in mixture",
               "Cook in buttered skillet until golden", "Serve with syrup">>
        ELSE <<"Prepare ingredients", "Cook main components",
               "Combine and finish", "Serve hot">>)

_get_mock_tool(step) ==
    Let(Lower(step), LAMBDA step_lower :
        IF Contains(step_lower, "pound") \/ Contains(step_lower, "chop")
           \/ Contains(step_lower, "cut")
        THEN "Chopping Board"
        ELSE IF Contains(step_lower, "bread") \/ Contains(step_lower, "mix")
                \/ Contains(step_lower, "combine")
        THEN "Mixing Bowl"
        ELSE IF Contains(step_lower, "pan-fry") \/ Contains(step_lower, "fry")
                \/ Contains(step_lower, "saute")
        THEN "Skillet"
        ELSE IF Contains(step_lower, "bake") \/ Contains(step_lower, "roast")
        THEN "Oven"
        ELSE IF Contains(step_lower, "boil") \/ Contains(step_lower, "simmer")
        THEN "Saucepan"
        ELSE IF Contains(step_lower, "drain") \/ Contains(step_lower, "strain")
        THEN "Strainer"
        ELSE "Spatula")

_get_mock_ingredients(step) ==
    Let(Lower(step), LAMBDA step_lower :
        IF Contains(step_lower, "chicken")
        THEN <<"Chicken Breast", "Salt", "Black Pepper">>
        ELSE IF Contains(step_lower, "pasta") \/ Contains(step_lower, "boil")
        THEN <<"Pasta", "Salt", "Water">>
        ELSE IF Contains(step_lower, "sauce")
        THEN <<"Tomato Sauce", "Garlic", "Onion">>
        ELSE IF Contains(step_lower, "cheese")
        THEN <<"Parmesan Cheese", "Mozzarella Cheese">>
        ELSE IF Contains(step_lower, "bread")
        THEN <<"Breadcrumbs", "Flour", "Eggs">>
        ELSE IF Contains(step_lower, "toast")
        THEN <<"Bread", "Eggs", "Milk", "Butter">>
        ELSE <<>>)

\* json.load of data/tools.json; open() raises when the file is missing
get_tools(d) == IF d.tools = None THEN Raise ELSE Return(d.tools[1])

\* json.load of data/ingredients.json
get_ingredients(d) == IF d.ingredients = None THEN Raise ELSE Return(d.ingredients[1])

use_tool(inp) ==
    Return("Successfully used " \o inp.tool_name \o " for: " \o inp.step_description)

\* get_plan without its except clause
get_plan_NoExcept(inp, o) ==
    LET llm_plan == generate_plan_with_llm(inp.recipe, inp.tools, inp.ingredients, o)
    IN  IF llm_plan.exc THEN Raise
        ELSE IF Truthy(llm_plan.val) THEN Return(llm_plan.val[1])
        ELSE Return(_get_mock_plan(inp.recipe))

\* inp is a PlanInput
get_plan(inp, o) ==
    LET llm_plan == generate_plan_with_llm(inp.recipe, inp.tools, inp.ingredients, o)
    IN  IF llm_plan.exc THEN Return(_get_mock_plan(inp.recipe))
        ELSE IF Truthy(llm_plan.val) THEN Return(llm_plan.val[1])
        ELSE Return(_get_mock_plan(inp.recipe))

\* inp is a ToolSelectionInput
get_tool_for_step(inp, o) ==
    LET selected_tool == select_tool_with_llm(inp.step, inp.tools, o)
    IN  IF selected_tool.exc THEN Return(_get_mock_tool(inp.step))
        ELSE IF Truthy(selected_tool.val) THEN Return(selected_tool.val[1])
        ELSE Return(_get_mock_tool(inp.step))

\* what get_ingredients_for_step sends to the oracle: nothing (None) when there
\* is no client, else the prompt of select_ingredients_with_llm
ingredients_prompt(inp, o) ==
    IF o.kind \in {"absent", "client_raises"} THEN None
    ELSE Some(IngredientsPrompt(inp.step, inp.ingredients, inp.plan_context,
                                inp.step_index))

\* inp is an IngredientsSelectionInput
get_ingredients_for_step(inp, o) ==
    LET selected_ingredients ==
            select_ingredients_with_llm(inp.step, inp.ingredients, inp.plan_context,
                                        inp.step_index, o)
    IN  IF selected_ingredients.exc THEN Return(_get_mock_ingredients(inp.step))
        ELSE IF Truthy(selected_ingredients.val) THEN Return(selected_ingredients.val[1])
        ELSE Return(_get_mock_ingredients(inp.step))

----------------------------------------------------------------------------
(* Inputs *)

Recipes == {"chicken parmesan", "Veggie Pasta", "French Toast", "soup"}

\* the data directory of a deployment: the two catalog files, None when missing
DataDirs ==
    { [tools |-> Some(<<"Skillet", "Oven", "Chopping Board">>),
       ingredients |-> Some(<<"Chicken Breast", "Salt", "Pepper">>)],
      [tools |-> Some(<<"Chopping Board", "Mixing Bowl", "Skillet", "Oven",
                        "Saucepan", "Strainer", "Spatula">>),
       ingredients |-> Some(<<"Chicken Breast", "Salt", "Black Pepper", "Pasta",
                              "Water", "Tomato Sauce", "Garlic", "Onion",
                              "Parmesan Cheese", "Mozzarella Cheese",
                              "Breadcrumbs", "Flour", "Eggs", "Bread", "Milk",
                              "Butter">>)],
      [tools |-> None, ingredients |-> Some(<<"Salt">>)],
      [tools |-> Some(<<"Oven">>), ingredients |-> None] }

\* response texts the oracle may give to each kind of prompt
\* longest numbered list the oracle answers a plan prompt with
MaxLlmPlanLen == 2

LlmPlanSteps == <<"Roast the chicken", "Serve hot", "Boil the pasta">>

\* the lines "1. <step>" ... "n. <step>" of the first n LlmPlanSteps
NumberedList(n) ==
    Join("", [k \in 1..n |-> Chr(Digits, k + 1) \o ". " \o LlmPlanSteps[k] \o "\n"])

PlanResponses ==
    {"", "I cannot help with that."}
        \cup {NumberedList(n) : n \in 1..MaxLlmPlanLen}
ToolResponses == {"", " Oven\n", "oven", "Blender"}
IngredientResponses == {"", "Salt, Saffron,Pepper", "Saffron"}

\* every behaviour of the oracle on one call whose possible texts are `responses`
Oracles(responses) ==
    {Oracle(k, "") : k \in OracleKinds \ {"text"}}
        \cup {Oracle("text", c) : c \in responses}

----------------------------------------------------------------------------
(* workflow.py *)

\* InitialState with step_status starting at the first value the dataclass lists
InitialState_SelectingTool ==
    [recipe |-> "", plan |-> <<>>, current_step |-> None, current_step_index |-> 0,
     completed_steps |-> <<>>, used_tools |-> <<>>, current_tool |-> None,
     used_ingredients |-> <<>>, current_ingredients |-> <<>>, step_tools |-> <<>>,
     step_ingredients |-> <<>>, current_tool_result |-> None, is_complete |-> FALSE,
     status |-> "planning", step_status |-> "selecting_tool"]

\* ChefWorkflow.__init__
InitialState ==
    [recipe |-> "", plan |-> <<>>, current_step |-> None, current_step_index |-> 0,
     completed_steps |-> <<>>, used_tools |-> <<>>, current_tool |-> None,
     used_ingredients |-> <<>>, current_ingredients |-> <<>>, step_tools |-> <<>>,
     step_ingredients |-> <<>>, current_tool_result |-> None, is_complete |-> FALSE,
     status |-> "planning", step_status |-> ""]

\* ChefWorkflow.get_state, the query handler
get_state == state

\* no activity scheduled yet
NoAttempts == [pending |-> 0, delivered |-> 0]

Pending == [kind |-> "pending", value |-> ""]
Summary(s) == [kind |-> "summary", value |-> s]
Failure(activity) == [kind |-> "failure", value |-> activity]

\* worker.py lines 21-35: the worker of main
worker_main ==
    [file |-> "worker.py",
     activities |-> {"get_tools", "get_ingredients", "get_plan", "get_tool_for_step",
                     "get_ingredients_for_step", "use_tool"}]

\* test_complete.py lines 26-38
worker_test_complete ==
    [file |-> "test_complete.py",
     activities |-> {"get_tools", "get_ingredients", "get_plan", "get_tool_for_step",
                     "use_tool"}]

\* test_end_to_end.py lines 136-148
worker_test_end_to_end ==
    [file |-> "test_end_to_end.py",
     activities |-> {"get_tools", "get_ingredients", "get_plan", "get_tool_for_step",
                     "use_tool"}]

\* test_different_recipes.py lines 23-35
worker_test_different_recipes ==
    [file |-> "test_different_recipes.py",
     activities |-> {"get_tools", "get_ingredients", "get_plan", "get_tool_for_step",
                     "use_tool"}]

\* every worker the repository starts on chef-task-queue (run_with_worker.py
\* starts worker.py as a subprocess)
Workers == {worker_main, worker_test_complete, worker_test_end_to_end,
            worker_test_different_recipes}

\* a run submitted and not yet started, whatever worker serves the queue
Submitted ==
    /\ input \in [recipe : Recipes]
    /\ data \in DataDirs
    /\ state = InitialState
    /\ pc = "start"
    /\ tools = <<>>
    /\ ingredients = <<>>
    /\ tool = None
    /\ step_ingredients = <<>>
    /\ tool_input = None
    /\ result = Pending
    /\ log = <<>>
    /\ history = <<>>
    /\ attempts = NoAttempts
    /\ call = None
    /\ obs_pc = "poll"
    /\ snap = None
    /\ received = Pending
    /\ query_error = FALSE
    /\ plan_displayed = FALSE

\* the run is served by the worker of worker.py
Init == Submitted /\ worker = worker_main

\* the locals plan, i and step of run: assigned together with the state fields
\* of lines 97, 104 and 105 and never changed apart from them
plan == state.plan
i == state.current_step_index
step == state.current_step[1]

\* xs.append(x) unless x is in xs already
AppendNew(xs, x) == Let(xs, LAMBDA ys : IF InList(x, ys) THEN ys ELSE Append(ys, x))

\* lines 169-171: F[k] is xs after the first k elements of ys
AppendAllNew(xs, ys) ==
    LET F[k \in 0..Len(ys)] == IF k = 0 THEN xs ELSE AppendNew(F[k - 1], ys[k])
    IN  F[Len(ys)]

\* BeginStep counting steps from 1
BeginStep_OneBased(st, k) ==
    [st EXCEPT !.current_step = Some(st.plan[k + 1]),
               !.current_step_index = k + 1,
               !.step_status = "selecting_tool"]

\* lines 104-106: the head of loop iteration k (0-based) up to its first await
BeginStep(st, k) ==
    [st EXCEPT !.current_step = Some(st.plan[k + 1]),
               !.current_step_index = k,
               !.step_status = "selecting_tool"]

\* MarkComplete that also empties the plan
MarkComplete_ClearsPlan(st) ==
    [st EXCEPT !.plan = <<>>,
               !.current_step = None,
               !.current_tool = None,
               !.current_ingredients = <<>>,
               !.current_tool_result = None,
               !.is_complete = TRUE,
               !.status = "completed",
               !.step_status = ""]

\* MarkComplete without line 177
MarkComplete_KeepsResult(st) ==
    [st EXCEPT !.current_step = None,
               !.current_tool = None,
               !.current_ingredients = <<>>,
               !.is_complete = TRUE,
               !.status = "completed",
               !.step_status = ""]

\* MarkComplete without line 178
MarkComplete_ForgetsIsComplete(st) ==
    [st EXCEPT !.current_step = None,
               !.current_tool = None,
               !.current_ingredients = <<>>,
               !.current_tool_result = None,
               !.status = "completed",
               !.step_status = ""]

\* lines 174-180
MarkComplete(st) ==
    [st EXCEPT !.current_step = None,
               !.current_tool = None,
               !.current_ingredients = <<>>,
               !.current_tool_result = None,
               !.is_complete = TRUE,
               !.status = "completed",
               !.step_status = ""]

\* xs back to front
Reversed(xs) == [k \in 1..Len(xs) |-> xs[Len(xs) + 1 - k]]

\* SummaryOf listing the tools latest first
SummaryOf_LatestFirst(recipe, used_tools) ==
    "Cooked " \o recipe \o " using " \o Join(", ", Reversed(used_tools))

\* line 182
SummaryOf(recipe, used_tools) == "Cooked " \o recipe \o " using " \o Join(", ", used_tools)

\* RecordStep assigning [tool] to used_tools instead of appending to it
RecordStep_ReplacesUsedTools(st, tool_result) ==
    [st EXCEPT !.current_tool_result = Some(tool_result),
               !.step_status = "step_complete",
               !.completed_steps = Append(@, step),
               !.used_tools = <<tool[1]>>,
               !.step_tools = Append(@, tool[1]),
               !.step_ingredients = Append(@, step_ingredients),
               !.used_ingredients = AppendAllNew(@, step_ingredients)]

\* RecordStep recording the ingredients of a step only when there are some
RecordStep_SkipsEmptyIngredients(st, tool_result) ==
    [st EXCEPT !.current_tool_result = Some(tool_result),
               !.step_status = "step_complete",
               !.completed_steps = Append(@, step),
               !.used_tools = AppendNew(@, tool[1]),
               !.step_tools = Append(@, tool[1]),
               !.step_ingredients =
                   IF Len(step_ingredients) > 0 THEN Append(@, step_ingredients) ELSE @,
               !.used_ingredients = AppendAllNew(@, step_ingredients)]

\* RecordStep putting the completed step at the front of completed_steps
RecordStep_PrependsStep(st, tool_result) ==
    [st EXCEPT !.current_tool_result = Some(tool_result),
               !.step_status = "step_complete",
               !.completed_steps = <<step>> \o @,
               !.used_tools = AppendNew(@, tool[1]),
               !.step_tools = Append(@, tool[1]),
               !.step_ingredients = Append(@, step_ingredients),
               !.used_ingredients = AppendAllNew(@, step_ingredients)]

\* RecordStep appending to used_tools and used_ingredients without the `not in` tests
RecordStep_AppendsAlways(st, tool_result) ==
    [st EXCEPT !.current_tool_result = Some(tool_result),
               !.step_status = "step_complete",
               !.completed_steps = Append(@, step),
               !.used_tools = Append(@, tool[1]),
               !.step_tools = Append(@, tool[1]),
               !.step_ingredients = Append(@, step_ingredients),
               !.used_ingredients = @ \o step_ingredients]

\* lines 156-171: the record of a completed step
RecordStep(st, tool_result) ==
    [st EXCEPT !.current_tool_result = Some(tool_result),
               !.step_status = "step_complete",
               !.completed_steps = Append(@, step),
               !.used_tools = AppendNew(@, tool[1]),
               !.step_tools = Append(@, tool[1]),
               !.step_ingredients = Append(@, step_ingredients),
               !.used_ingredients = AppendAllNew(@, step_ingredients)]

\* the activities run schedules, by name (the values of pc at which run waits
\* for an activity; "sleep" is a timer)
ActivityNames == {"get_tools", "get_ingredients", "get_plan", "get_tool_for_step",
                  "get_ingredients_for_step", "use_tool"}

\* the outcome r of the call `name` is delivered to run and kept in the history
Recorded(name, r) == history' = Append(history, [name |-> name, outcome |-> r])

\* the activity run waits for is one the worker can execute
Registered == pc \in worker.activities

\* run is woken with the outcome of the call it waited for and goes on to its
\* next await: the executions the delivered call took are kept, and a newly
\* scheduled activity starts its first execution
Delivered ==
    attempts' = [pending |-> IF pc' \in ActivityNames THEN 1 ELSE 0,
                 delivered |-> attempts.pending]

\* the entries of log.  A call made before the loop carries step -1.
Scheduled(name, k) == [ev |-> "call", name |-> name, step |-> k]
Returned(name, k) == [ev |-> "return", name |-> name, step |-> k]
Raised(name, k) == [ev |-> "raise", name |-> name, step |-> k]

\* an assignment to step_status, with the step index it was made under
Phase(st) == [ev |-> "phase", name |-> st.step_status, step |-> st.current_step_index]

\* the step (or -1) the pending call belongs to
CallStep == IF state.status = "planning" THEN -1 ELSE i

\* run goes on from the loop header with index k: into iteration k up to the
\* await of get_tool_for_step, or, the plan exhausted, through lines 174-185
Continue(st, k, lg) ==
    IF k < Len(st.plan)
    THEN /\ state' = BeginStep(st, k)
         /\ pc' = "get_tool_for_step"
         /\ result' = result
         /\ log' = lg \o <<Phase(BeginStep(st, k)), Scheduled("get_tool_for_step", k)>>
    ELSE /\ state' = MarkComplete(st)
         /\ pc' = "done"
         /\ result' = Summary(SummaryOf(input.recipe, st.used_tools))
         /\ log' = Append(lg, Phase(MarkComplete(st)))

\* an exception leaves run: the workflow fails with the state as it is
Fail(activity) ==
    /\ pc' = "failed"
    /\ result' = Failure(activity)
    /\ state' = state
    /\ log' = Append(log, Raised(activity, CallStep))

\* Start loading both catalogs at once, as asyncio.gather would
Start_LoadsBoth ==
    /\ pc = "start"
    /\ state' = [state EXCEPT !.recipe = input.recipe, !.status = "planning"]
    /\ pc' = "get_tools"
    /\ log' = log \o <<Scheduled("get_tools", -1), Scheduled("get_ingredients", -1)>>
    /\ UNCHANGED <<input, data, worker, tools, ingredients, tool, step_ingredients,
                   tool_input, result, call, observer>>
    /\ history' = history
    /\ Delivered

\* lines 65-77
Start ==
    /\ pc = "start"
    /\ state' = [state EXCEPT !.recipe = input.recipe, !.status = "planning"]
    /\ pc' = "get_tools"
    /\ log' = Append(log, Scheduled("get_tools", -1))
    /\ UNCHANGED <<input, data, worker, tools, ingredients, tool, step_ingredients,
                   tool_input, result, call, observer>>
    /\ history' = history
    /\ Delivered

\* lines 74-82: get_tools returns or raises
GetToolsDone ==
    /\ pc = "get_tools"
    /\ Registered
    /\ LET r == get_tools(data)
       IN  Recorded("get_tools", r) /\ IF r.exc
           THEN Fail("get_tools") /\ tools' = tools
           ELSE /\ tools' = r.val
                /\ pc' = "get_ingredients"
                /\ log' = log \o <<Returned("get_tools", -1),
                                   Scheduled("get_ingredients", -1)>>
                /\ UNCHANGED <<state, result>>
    /\ UNCHANGED <<input, data, worker, ingredients, tool, step_ingredients, tool_input, call, observer>>
    /\ Delivered

\* lines 79-95: get_ingredients returns or raises
GetIngredientsDone ==
    /\ pc = "get_ingredients"
    /\ Registered
    /\ LET r == get_ingredients(data)
       IN  Recorded("get_ingredients", r) /\ IF r.exc
           THEN Fail("get_ingredients") /\ ingredients' = ingredients
           ELSE /\ ingredients' = r.val
                /\ pc' = "get_plan"
                /\ log' = log \o <<Returned("get_ingredients", -1),
                                   Scheduled("get_plan", -1)>>
                /\ UNCHANGED <<state, result>>
    /\ UNCHANGED <<input, data, worker, tools, tool, step_ingredients, tool_input, call, observer>>
    /\ Delivered

\* lines 85-117: get_plan returns, the plan is stored and the loop is entered
GetPlanDone ==
    /\ pc = "get_plan"
    /\ Registered
    /\ \E o \in Oracles(PlanResponses) :
        LET plan_input == [recipe |-> input.recipe, tools |-> tools,
                           ingredients |-> ingredients]
            r == get_plan(plan_input, o)
        IN  Recorded("get_plan", r) /\ IF r.exc
            THEN Fail("get_plan")
            ELSE Continue([state EXCEPT !.plan = r.val, !.status = "executing"], 0,
                          Append(log, Returned("get_plan", -1)))
    /\ UNCHANGED <<input, data, worker, tools, ingredients, tool, step_ingredients,
                   tool_input, call, observer>>
    /\ Delivered

\* lines 109-133: get_tool_for_step returns
GetToolForStepDone ==
    /\ pc = "get_tool_for_step"
    /\ Registered
    /\ \E o \in Oracles(ToolResponses) :
        LET tool_selection_input == [step |-> step, tools |-> tools]
            r == get_tool_for_step(tool_selection_input, o)
        IN  Recorded("get_tool_for_step", r) /\ IF r.exc
            THEN Fail("get_tool_for_step") /\ tool' = tool
            ELSE /\ tool' = Some(r.val)
                 /\ state' = [state EXCEPT !.current_tool = Some(r.val)]
                 /\ pc' = "get_ingredients_for_step"
                 /\ result' = result
                 /\ log' = log \o <<Returned("get_tool_for_step", i),
                                    Scheduled("get_ingredients_for_step", i)>>
    /\ UNCHANGED <<input, data, worker, tools, ingredients, step_ingredients, tool_input, call, observer>>
    /\ Delivered

\* SetUsingTool without line 137
SetUsingTool_KeepsPhase(st, ings) ==
    [st EXCEPT !.current_ingredients = ings]

\* lines 136-137
SetUsingTool(st, ings) ==
    [st EXCEPT !.current_ingredients = ings, !.step_status = "using_tool"]

\* lines 123-140: get_ingredients_for_step returns
GetIngredientsForStepDone ==
    /\ pc = "get_ingredients_for_step"
    /\ Registered
    /\ \E o \in Oracles(IngredientResponses) :
        LET ingredients_selection_input ==
                [step |-> step, ingredients |-> ingredients,
                 plan_context |-> plan, step_index |-> i]
            r == get_ingredients_for_step(ingredients_selection_input, o)
        IN  Recorded("get_ingredients_for_step", r) /\ IF r.exc
            THEN Fail("get_ingredients_for_step") /\ step_ingredients' = step_ingredients
            ELSE /\ step_ingredients' = r.val
                 /\ state' = SetUsingTool(state, r.val)
                 /\ pc' = "sleep"
                 /\ result' = result
                 /\ log' = log \o <<Returned("get_ingredients_for_step", i),
                                    Phase(SetUsingTool(state, r.val))>>
    /\ UNCHANGED <<input, data, worker, tools, ingredients, tool, tool_input, call, observer>>
    /\ Delivered

\* lines 140-153: the sleep ends and use_tool is scheduled
SleepDone ==
    /\ pc = "sleep"
    /\ tool_input' = Some([tool_name |-> tool[1], ingredients |-> ingredients,
                           step_description |-> step])
    /\ pc' = "use_tool"
    /\ Recorded("sleep", Return(None))
    /\ log' = Append(log, Scheduled("use_tool", i))
    /\ UNCHANGED <<input, data, worker, state, tools, ingredients, tool, step_ingredients,
                   result, call, observer>>
    /\ Delivered

\* lines 149-185: use_tool returns, the step is recorded, and run goes on to the
\* next await or to its end
UseToolDone ==
    /\ pc = "use_tool"
    /\ Registered
    /\ LET r == use_tool(tool_input[1])
       IN  Recorded("use_tool", r) /\ IF r.exc
           THEN Fail("use_tool")
           ELSE Continue(RecordStep(state, r.val), i + 1,
                         log \o <<Returned("use_tool", i), Phase(RecordStep(state, r.val))>>)
    /\ UNCHANGED <<input, data, worker, tools, ingredients, tool, step_ingredients,
                   tool_input, call, observer>>
    /\ Delivered

\* line 149: the use_tool call fails (the activity is reported failed to run)
UseToolFails ==
    /\ pc = "use_tool"
    /\ Registered
    /\ Fail("use_tool")
    /\ Recorded("use_tool", Raise)
    /\ UNCHANGED <<input, data, worker, tools, ingredients, tool, step_ingredients,
                   tool_input, call, observer>>
    /\ Delivered

\* the decision strategies, by the name of their activity
StrategyCalls == {"get_plan", "get_tool_for_step", "get_ingredients_for_step"}

\* the pending strategy call ran past its start_to_close_timeout
TimedOut(name, k) == [ev |-> "timeout", name |-> name, step |-> k]

\* lines 91-95, 113-117, 129-133: a strategy activity exceeds the
\* start_to_close_timeout it was scheduled with; no fallback value is produced
\* for run (the rule tables are reached only inside the activity), the await
\* raises and, run having no handler, the workflow fails
StrategyTimesOut ==
    /\ pc \in StrategyCalls
    /\ Registered
    /\ pc' = "failed"
    /\ result' = Failure(pc)
    /\ state' = state
    /\ Recorded(pc, Raise)
    /\ log' = log \o <<TimedOut(pc, CallStep), Raised(pc, CallStep)>>
    /\ UNCHANGED <<input, data, worker, tools, ingredients, tool, step_ingredients,
                   tool_input, call, observer>>
    /\ Delivered

RunNext ==
    \/ Start
    \/ GetToolsDone
    \/ GetIngredientsDone
    \/ GetPlanDone
    \/ GetToolForStepDone
    \/ GetIngredientsForStepDone
    \/ SleepDone
    \/ UseToolDone
    \/ UseToolFails
    \/ StrategyTimesOut

Next == RunNext

Spec == Init /\ [][Next]_vars

\* the worker keeps taking the run forward: a step that stays enabled is taken
FairSpec == Spec /\ WF_vars(RunNext)

\* run executed again from its first line against a recorded history, as a
\* worker does after a restart: R holds self._state, the await run is
\* suspended at, run's locals and its result
ReplayStart(recipe) ==
    [state |-> [InitialState EXCEPT !.recipe = recipe, !.status = "planning"],
     pc |-> "get_tools", tools |-> <<>>, ingredients |-> <<>>, tool |-> None,
     step_ingredients |-> <<>>, result |-> Pending]

\* lines 156-171 on the replayed run
ReplayRecordStep(R, tool_result) ==
    [R.state EXCEPT !.current_tool_result = Some(tool_result),
                    !.step_status = "step_complete",
                    !.completed_steps = Append(@, R.state.current_step[1]),
                    !.used_tools = AppendNew(@, R.tool[1]),
                    !.step_tools = Append(@, R.tool[1]),
                    !.step_ingredients = Append(@, R.step_ingredients),
                    !.used_ingredients = AppendAllNew(@, R.step_ingredients)]

\* the loop header with index k on the replayed run
ReplayContinue(R, st, k) ==
    IF k < Len(st.plan)
    THEN [R EXCEPT !.state = BeginStep(st, k), !.pc = "get_tool_for_step"]
    ELSE [R EXCEPT !.state = MarkComplete(st), !.pc = "done",
                   !.result = Summary(SummaryOf(st.recipe, st.used_tools))]

\* the replayed run is handed the recorded outcome e of the call it waits for
ReplayEvent(R, e) ==
    IF e.outcome.exc
    THEN [R EXCEPT !.pc = "failed", !.result = Failure(e.name)]
    ELSE CASE R.pc = "get_tools" ->
                [R EXCEPT !.tools = e.outcome.val, !.pc = "get_ingredients"]
           [] R.pc = "get_ingredients" ->
                [R EXCEPT !.ingredients = e.outcome.val, !.pc = "get_plan"]
           [] R.pc = "get_plan" ->
                ReplayContinue(R, [R.state EXCEPT !.plan = e.outcome.val,
                                                  !.status = "executing"], 0)
           [] R.pc = "get_tool_for_step" ->
                [R EXCEPT !.tool = Some(e.outcome.val),
                          !.state = [R.state EXCEPT !.current_tool = Some(e.outcome.val)],
                          !.pc = "get_ingredients_for_step"]
           [] R.pc = "get_ingredients_for_step" ->
                [R EXCEPT !.step_ingredients = e.outcome.val,
                          !.state = SetUsingTool(R.state, e.outcome.val),
                          !.pc = "sleep"]
           [] R.pc = "sleep" -> [R EXCEPT !.pc = "use_tool"]
           [] R.pc = "use_tool" ->
                ReplayContinue(R, ReplayRecordStep(R, e.outcome.val),
                               R.state.current_step_index + 1)

\* run replayed against the history h of a run of `recipe`
Replay(recipe, h) ==
    LET F[k \in 0..Len(h)] ==
            IF k = 0 THEN ReplayStart(recipe) ELSE ReplayEvent(F[k - 1], h[k])
    IN  F[Len(h)]

\* most executions one activity call is given
MaxAttempts == 2

\* ActivityRetried with every execution's result delivered to run: a second
\* execution of use_tool has its step recorded again
ActivityRetried_DeliversEach ==
    /\ pc \in ActivityNames
    /\ Registered
    /\ attempts.pending < MaxAttempts
    /\ attempts' = [attempts EXCEPT !.pending = @ + 1]
    /\ state' = IF pc = "use_tool" THEN RecordStep(state, use_tool(tool_input[1]).val)
                                   ELSE state
    /\ UNCHANGED <<input, data, worker, pc, tools, ingredients, tool, step_ingredients,
                   tool_input, result, log, history, call, observer>>

\* workflow.py lines 74, 79, 91, 113, 129, 149: the activity run waits for is
\* executed once more (its worker was lost, or the attempt failed or timed out
\* and is retried) before any outcome is delivered; run stays suspended at its
\* await and nothing of the workflow changes
ActivityRetried ==
    /\ pc \in ActivityNames
    /\ Registered
    /\ attempts.pending < MaxAttempts
    /\ attempts' = [attempts EXCEPT !.pending = @ + 1]
    /\ UNCHANGED <<input, data, worker, state, pc, tools, ingredients, tool, step_ingredients,
                   tool_input, result, log, history, call, observer>>

RetryNext ==
    \/ RunNext
    \/ ActivityRetried

\* the run under at-least-once execution of its activities
RetrySpec == Init /\ [][RetryNext]_vars

\* the run served by any one of the repository's workers
WorkerInit == Submitted /\ worker \in Workers

WorkerSpec == WorkerInit /\ [][Next]_vars

----------------------------------------------------------------------------
(* run_chef.py: the submitter, which started the run, polls get_state until   *)
(* a snapshot says is_complete and then takes the result.                     *)

\* a query handler that rewinds current_step_index while answering
GetState_RewindsIndex ==
    /\ snap' = Some(get_state)
    /\ state' = [state EXCEPT !.current_step_index = 0]
    /\ UNCHANGED <<input, data, worker, pc, tools, ingredients, tool, step_ingredients,
                   tool_input, result, log, history, attempts, call>>

\* a query handler that hands the state out and then clears the tool result
GetState_ClearsResult ==
    /\ snap' = Some(get_state)
    /\ state' = [state EXCEPT !.current_tool_result = None]
    /\ UNCHANGED <<input, data, worker, pc, tools, ingredients, tool, step_ingredients,
                   tool_input, result, log, history, attempts, call>>

\* workflow.py lines 187-190, one query answered: the caller gets self._state
\* and run is left as it was
GetState ==
    /\ snap' = Some(get_state)
    /\ UNCHANGED <<input, data, worker, state, pc, tools, ingredients, tool, step_ingredients,
                   tool_input, result, log, history, attempts, call>>

\* run_chef.py lines 156-173 (and the inner wait of 149-154, which queries on
\* while the snapshot says using_tool): with the snapshot s in hand the loop is
\* left if s says is_complete, and otherwise goes round to query again
AfterDisplay(s) == IF s.is_complete THEN "result" ELSE "poll"

\* run_chef.py lines 71-173, one turn of the polling loop from the query on:
\* the first snapshot with a plan has the plan shown and the user asked to
\* press Enter (lines 98-118); any other is displayed and tested for is_complete
Poll ==
    /\ obs_pc = "poll"
    /\ GetState
    /\ IF Len(get_state.plan) > 0 /\ ~plan_displayed
       THEN /\ plan_displayed' = TRUE
            /\ obs_pc' = "input"
       ELSE /\ plan_displayed' = plan_displayed
            /\ obs_pc' = AfterDisplay(get_state)
    /\ received' = received
    /\ query_error' = FALSE

\* run_chef.py lines 118-173: console.input returns and the turn goes on with
\* the snapshot taken before the prompt
InputReturns ==
    /\ obs_pc = "input"
    /\ obs_pc' = AfterDisplay(snap[1])
    /\ UNCHANGED <<input, data, worker, state, pc, tools, ingredients, tool, step_ingredients,
                   tool_input, result, log, history, attempts, call, snap, received,
                   query_error, plan_displayed>>

\* run_chef.py lines 118 and 175-177: console.input raises (EOFError on a closed
\* stdin); the handler of the loop prints and sleeps, the test of line 169 is
\* skipped, and the loop queries again whatever the snapshot said
InputRaises ==
    /\ obs_pc = "input"
    /\ obs_pc' = "poll"
    /\ UNCHANGED <<input, data, worker, state, pc, tools, ingredients, tool, step_ingredients,
                   tool_input, result, log, history, attempts, call, snap, received,
                   query_error, plan_displayed>>

\* PollFails with no try round the query: the exception leaves the loop and
\* main returns through its outer handler (lines 195-197)
PollFails_LeavesLoop ==
    /\ obs_pc = "poll"
    /\ query_error' = TRUE
    /\ obs_pc' = "done"
    /\ UNCHANGED <<input, data, worker, state, pc, tools, ingredients, tool, step_ingredients,
                   tool_input, result, log, history, attempts, call, snap, received,
                   plan_displayed>>

\* run_chef.py lines 74, 175-178 and 149-154: handle.query raises; the error is
\* printed (outer loop) or the inner wait is left with the old state (inner
\* loop), and the loop goes round to query again
PollFails ==
    /\ obs_pc = "poll"
    /\ query_error' = TRUE
    /\ obs_pc' = "poll"
    /\ UNCHANGED <<input, data, worker, state, pc, tools, ingredients, tool, step_ingredients,
                   tool_input, result, log, history, attempts, call, snap, received,
                   plan_displayed>>

\* run_chef.py line 180, reached only from the break of line 170
AwaitResult ==
    /\ obs_pc = "result"
    /\ result # Pending
    /\ received' = result
    /\ obs_pc' = "done"
    /\ UNCHANGED <<input, data, worker, state, pc, tools, ingredients, tool, step_ingredients,
                   tool_input, result, log, history, attempts, call, snap, query_error,
                   plan_displayed>>

ObserverNext ==
    \/ Poll
    \/ PollFails
    \/ InputReturns
    \/ InputRaises
    \/ AwaitResult

ObservedNext ==
    \/ RunNext
    \/ ObserverNext

\* the data directories of the observed runs: the short catalogs and the
\* directories with a file missing
ObservedDataDirs == {d \in DataDirs : d.tools = None \/ Len(d.tools[1]) <= 3}

\* the recipes and data directories of the observed runs
ObservedInit == Init /\ input.recipe = "soup" /\ data \in ObservedDataDirs

ObservedSpec == ObservedInit /\ [][ObservedNext]_vars

\* the worker keeps taking the run forward and the submitter keeps polling;
\* queries do not fail forever, and the prompt is answered (or stdin is closed)
FairObservedSpec ==
    ObservedSpec /\ WF_vars(RunNext) /\ WF_vars(Poll) /\ WF_vars(AwaitResult)
                 /\ WF_vars(InputReturns \/ InputRaises)

----------------------------------------------------------------------------
(* The decision strategies called on their own, on every input of the bounded *)
(* sets, each call recorded in `call`.                                        *)

SeqToSet(xs) == {xs[k] : k \in 1..Len(xs)}

StepTexts ==
    UNION {SeqToSet(_get_mock_plan(r)) : r \in Recipes}
        \cup SeqToSet(LlmPlanSteps) \cup {"", "CHOP the onions"}

Catalogs == {d \in DataDirs : d.tools # None /\ d.ingredients # None}

\* the workflow's variables stay as Init left them
StrategyFrame ==
    UNCHANGED <<input, data, worker, state, pc, tools, ingredients, tool, step_ingredients,
                tool_input, result, log, history, attempts, observer>>

\* further answers the oracle may give when a strategy is called on its own:
\* bulleted and unmarked lines, padded, miscased and wordy tool names,
\* repeated and padded ingredient names
MarkedPlanResponses ==
    {"- Sear the chicken. Rest it\n- Serve", "Here is the plan:\n1. Chop onions.\n\n-  Serve hot \n",
     "\f1. Chop onions\f\n2. Serve", "1. Chop onions\n-"}
PaddedToolResponses == {"Oven", "Use the Oven", "Skillet ", "\fOven\f", " Oven "}
PaddedIngredientResponses ==
    {"salt, Salt ,Salt", " Pepper\n", "Pepper,,Chicken Breast", "Salt\f, Pepper", "Salt, Pepper,"}

CallGetPlan ==
    /\ call = None
    /\ \E r \in Recipes, d \in Catalogs,
          o \in Oracles(PlanResponses \cup MarkedPlanResponses) :
        LET inp == [recipe |-> r, tools |-> d.tools[1], ingredients |-> d.ingredients[1]]
        IN  call' = Some([name |-> "get_plan", inp |-> inp, oracle |-> o,
                          result |-> get_plan(inp, o)])
    /\ StrategyFrame

CallGetToolForStep ==
    /\ call = None
    /\ \E s \in StepTexts, d \in Catalogs,
          o \in Oracles(ToolResponses \cup PaddedToolResponses) :
        LET inp == [step |-> s, tools |-> d.tools[1]]
        IN  call' = Some([name |-> "get_tool_for_step", inp |-> inp, oracle |-> o,
                          result |-> get_tool_for_step(inp, o)])
    /\ StrategyFrame

\* the plans handed over as plan_context: the fallback plans and an oracle's
PlanContexts == {_get_mock_plan(r) : r \in Recipes} \cup {LlmPlanSteps}

CallGetIngredientsForStep ==
    /\ call = None
    /\ \E p \in PlanContexts, d \in Catalogs,
          o \in Oracles(IngredientResponses \cup PaddedIngredientResponses) :
        \E k \in 0..(Len(p) - 1) :
            LET inp == [step |-> p[k + 1], ingredients |-> d.ingredients[1],
                        plan_context |-> p, step_index |-> k]
            IN  call' = Some([name |-> "get_ingredients_for_step", inp |-> inp,
                              oracle |-> o, prompt |-> ingredients_prompt(inp, o),
                              result |-> get_ingredients_for_step(inp, o)])
    /\ StrategyFrame

StrategyNext ==
    \/ CallGetPlan
    \/ CallGetToolForStep
    \/ CallGetIngredientsForStep

\* one strategy call per behaviour, from the untouched initial state
StrategyInit == Init /\ input.recipe = "soup" /\ data.tools = None

StrategySpec == StrategyInit /\ [][StrategyNext]_vars

----------------------------------------------------------------------------
(* Properties *)

\* a is a prefix of b
IsPrefix(a, b) == Len(a) <= Len(b) /\ SubSeq(b, 1, Len(a)) = a

\* position of a status in planning -> executing -> completed
Rank(status) ==
    CASE status = "planning" -> 0
      [] status = "executing" -> 1
      [] status = "completed" -> 2

\* C1: a run none of whose calls fails reaches the end of run; once the result
\* is delivered the status is "completed", is_complete is true, the result is
\* the summary, and a query reports status completed with as many completed
\* steps as the plan has steps.
C1_RunCompletes ==
    /\ ([](pc # "failed") => <>(pc = "done"))
    /\ [](pc = "done" =>
            /\ state.status = "completed"
            /\ state.is_complete
            /\ result.kind = "summary"
            /\ get_state.status = "completed"
            /\ Len(get_state.completed_steps) = Len(get_state.plan))

C1_Witness ==
    /\ pc = "done"
    /\ result.kind = "summary"
    /\ get_state.is_complete
    /\ Len(get_state.plan) = 4
    /\ Len(get_state.completed_steps) = 4

\* C2: from one snapshot to the next the status stays where it is or moves one
\* place forward along planning -> executing -> completed.
C2_LifecycleForward ==
    [][Rank(state'.status) \in {Rank(get_state.status), Rank(get_state.status) + 1}]_vars

C2_Witness ==
    /\ get_state.status = "completed"
    /\ Len(get_state.plan) = 2

\* C3: from one snapshot to the next completed_steps, used_tools and
\* used_ingredients only gain elements at their end, and current_step_index
\* does not decrease.
C3_NeverShrink ==
    [][/\ IsPrefix(get_state.completed_steps, state'.completed_steps)
       /\ IsPrefix(get_state.used_tools, state'.used_tools)
       /\ IsPrefix(get_state.used_ingredients, state'.used_ingredients)
       /\ get_state.current_step_index <= state'.current_step_index]_vars

C3_Witness ==
    /\ Len(get_state.completed_steps) >= 2
    /\ Len(get_state.used_tools) >= 2
    /\ Len(get_state.used_ingredients) >= 4
    /\ get_state.current_step_index >= 2

\* C4: a snapshot with status executing has as many completed steps as its
\* current_step_index; a snapshot with status completed has as many as the plan.
C4_CompletedCount ==
    /\ get_state.status = "executing" =>
           Len(get_state.completed_steps) = get_state.current_step_index
    /\ get_state.status = "completed" =>
           Len(get_state.completed_steps) = Len(get_state.plan)

C4_Witness ==
    /\ get_state.status = "executing"
    /\ get_state.step_status = "using_tool"
    /\ get_state.current_step_index = 3
    /\ Len(get_state.completed_steps) = 3

\* C5: in every snapshot step_tools, step_ingredients and completed_steps have
\* the same length.
C5_IndexAlignment ==
    /\ Len(get_state.step_tools) = Len(get_state.completed_steps)
    /\ Len(get_state.step_ingredients) = Len(get_state.completed_steps)

C5_Witness ==
    /\ Len(get_state.step_tools) = 3
    /\ Len(get_state.step_ingredients) = 3
    /\ \E k \in 1..3 : get_state.step_ingredients[k] = <<>>

\* C6: every tool in used_tools and step_tools is in the tool catalog the run
\* loaded, and every ingredient in used_ingredients and in each entry of
\* step_ingredients is in the ingredient catalog the run loaded.
C6_CatalogContainment ==
    /\ \A k \in 1..Len(get_state.used_tools) : InList(get_state.used_tools[k], tools)
    /\ \A k \in 1..Len(get_state.step_tools) : InList(get_state.step_tools[k], tools)
    /\ \A k \in 1..Len(get_state.used_ingredients) :
           InList(get_state.used_ingredients[k], ingredients)
    /\ \A k \in 1..Len(get_state.step_ingredients) :
           \A j \in 1..Len(get_state.step_ingredients[k]) :
               InList(get_state.step_ingredients[k][j], ingredients)

\* C7: get_tool_for_step returns, without raising, a non-empty tool name that
\* is in the catalog it was given, whatever the oracle does.
C7_ToolAlwaysValid ==
    (call # None /\ call[1].name = "get_tool_for_step") =>
        /\ ~call[1].result.exc
        /\ Len(call[1].result.val) > 0
        /\ InList(call[1].result.val, call[1].inp.tools)

\* C8: get_plan returns, without raising, a non-empty list of non-empty steps,
\* whatever the oracle does.
C8_PlanTotal ==
    (call # None /\ call[1].name = "get_plan") =>
        /\ ~call[1].result.exc
        /\ Len(call[1].result.val) > 0
        /\ \A k \in 1..Len(call[1].result.val) : Len(call[1].result.val[k]) > 0

C8_Witness ==
    /\ call # None
    /\ call[1].name = "get_plan"
    /\ call[1].oracle.kind = "client_raises"
    /\ call[1].result = Return(_get_mock_plan(call[1].inp.recipe))

\* the oracle gave the strategy nothing it can use: no client, an exception, no
\* content, or content with no parsable step (plan), that is no catalog tool
\* (tool), or that names no catalog ingredient (ingredients)
OracleFailed(c) ==
    \/ c.oracle.kind # "text"
    \/ Len(c.oracle.content) = 0
    \/ c.name = "get_plan" /\ Len(ParsePlan(c.oracle.content)) = 0
    \/ c.name = "get_tool_for_step" /\ ~InList(Strip(c.oracle.content), c.inp.tools)
    \/ /\ c.name = "get_ingredients_for_step"
       /\ \A part \in SeqToSet(Split(c.oracle.content, ",")) :
              ~InList(Strip(part), c.inp.ingredients)

\* what the strategy's keyword table gives for the input of call c
FallbackOf(c) ==
    CASE c.name = "get_plan" -> _get_mock_plan(c.inp.recipe)
      [] c.name = "get_tool_for_step" -> _get_mock_tool(c.inp.step)
      [] c.name = "get_ingredients_for_step" -> _get_mock_ingredients(c.inp.step)

\* C9: when the oracle fails, each of the three strategies returns, without
\* raising, what its keyword fallback table gives for the same input.
C9_FailureRecoveredLocally ==
    (call # None /\ OracleFailed(call[1])) =>
        /\ ~call[1].result.exc
        /\ call[1].result.val = FallbackOf(call[1])

C9_Witness ==
    /\ call # None
    /\ call[1].name = "get_tool_for_step"
    /\ call[1].oracle = Oracle("text", "Blender")
    /\ call[1].result = Return("Spatula")

\* the part of C10 about the run itself, which holds: when use_tool fails for
\* step i the outcome of the run is that failure, the status is still
\* executing, is_complete is false, step i is in none of completed_steps,
\* step_tools and step_ingredients, and nothing of the run changes afterwards
C10_RunAborts ==
    /\ [](result = Failure("use_tool") =>
            /\ pc = "failed"
            /\ get_state.status = "executing"
            /\ ~get_state.is_complete
            /\ Len(get_state.completed_steps) = i
            /\ Len(get_state.step_tools) = i
            /\ Len(get_state.step_ingredients) = i)
    /\ [][(pc = "use_tool" /\ pc' = "failed") =>
            (state' = state /\ result' = Failure("use_tool"))]_vars
    /\ [][pc = "failed" => (pc' = "failed" /\ state' = state /\ result' = result)]_vars

\* use_tool failed on the third step
C10_RunAbortsWitness ==
    /\ result = Failure("use_tool")
    /\ pc = "failed"
    /\ get_state.current_step_index = 2
    /\ get_state.step_status = "using_tool"

\* C10: when use_tool fails for step i the failure leaves the run (the run is
\* never completed, is_complete stays false, step i is recorded in none of
\* the three lists) and the submitter that started the run receives it: the
\* failure of the run reaches `received`.
C10_ExecutorFailureIsFatal ==
    /\ C10_RunAborts
    /\ (result = Failure("use_tool")) ~> (received = Failure("use_tool"))

\* e is an entry of log
InLog(e) == \E k \in 1..Len(log) : log[k] = e

\* the activity was scheduled at some point of the run
Invoked(name) == \E k \in 1..Len(log) : log[k].ev = "call" /\ log[k].name = name

CatalogLoads == {"get_tools", "get_ingredients"}

\* the part of C11 about the run itself, which holds: when get_tools or
\* get_ingredients raises, run ends there: its outcome is the failure of that
\* call, get_plan has not been and is never scheduled, the plan is empty and
\* the status is "planning", and all of this stays so
C11_RunAborts ==
    /\ [](\A name \in CatalogLoads :
            InLog(Raised(name, -1)) =>
                /\ pc = "failed"
                /\ result = Failure(name)
                /\ ~Invoked("get_plan")
                /\ get_state.plan = <<>>
                /\ get_state.status = "planning")
    /\ [][result.kind = "failure" /\ result.value \in CatalogLoads =>
            UNCHANGED <<state, pc, result, log>>]_vars

\* get_tools returned and get_ingredients raised
C11_RunAbortsWitness ==
    /\ InLog(Returned("get_tools", -1))
    /\ InLog(Raised("get_ingredients", -1))
    /\ result = Failure("get_ingredients")
    /\ get_state.status = "planning"

\* C11: when get_tools or get_ingredients fails the run aborts before planning
\* (get_plan is never scheduled, the plan stays empty, the status stays
\* "planning") and the failure is surfaced to the submitter: the failure of
\* the run reaches `received`.
C11_CatalogFailureAborts ==
    /\ C11_RunAborts
    /\ \A name \in CatalogLoads :
           (result = Failure(name)) ~> (received = Failure(name))

\* C12: in every run, completed or failed, the submitter that started it and
\* polls it eventually holds the run's outcome, the summary or the failure.
C12_SubmitterReceives == <>(received # Pending /\ received = result)

\* the part of C12 the polling loop does deliver: a run that reaches the end of
\* run hands its summary to the submitter
C12_CompletedRunReceived == (pc = "done") ~> (received = result /\ obs_pc = "done")

\* a failed run never sets is_complete, so the loop never reaches handle.result()
C12_FailedRunNeverReceived ==
    [](pc = "failed" => received = Pending /\ obs_pc \in {"poll", "input"})

\* C14: a get_state query changes nothing of the run (no field of the state, no
\* local, not its position, log or outcome); the snapshot it returns is the
\* state as it stands, so a query made when the state still equals the last
\* snapshot returns that snapshot again.
C14_QueryHasNoEffect ==
    [][Poll => /\ UNCHANGED <<input, data, worker, state, pc, tools, ingredients, tool,
                              step_ingredients, tool_input, result, log>>
               /\ snap' = Some(state')
               /\ (snap = Some(state) => snap' = snap)]_vars

C14_Witness ==
    /\ snap = Some(state)
    /\ pc = "get_ingredients_for_step"
    /\ state.current_step_index = 1
    /\ state.current_tool_result # None

\* C15: a query is answered wherever run stands, from before its first line on;
\* every snapshot whose status is "planning" has an empty plan, empty
\* completed_steps, used_tools, used_ingredients, step_tools and
\* step_ingredients, no current step, tool or tool result, step_status "" and
\* is_complete false.
C15_PlanningSnapshotDefaults ==
    /\ obs_pc = "poll" => ENABLED Poll
    /\ \A s \in {get_state} \cup {snap[k] : k \in 1..Len(snap)} :
        s.status = "planning" =>
            /\ s.plan = <<>>
            /\ s.completed_steps = <<>>
            /\ s.used_tools = <<>>
            /\ s.used_ingredients = <<>>
            /\ s.step_tools = <<>>
            /\ s.step_ingredients = <<>>
            /\ s.current_step = None
            /\ s.current_tool = None
            /\ s.current_tool_result = None
            /\ s.current_ingredients = <<>>
            /\ s.current_step_index = 0
            /\ s.step_status = ""
            /\ s.is_complete = FALSE

\* a snapshot taken before run's first line, held while run awaits get_plan
C15_Witness ==
    /\ snap # None
    /\ snap[1].recipe = ""
    /\ snap[1].status = "planning"
    /\ pc = "get_plan"

\* entry a stands in log before entry b
Before(a, b) == \E j, k \in 1..Len(log) : j < k /\ log[j] = a /\ log[k] = b

\* the calls scheduled and not yet returned or raised, as positions of log
InFlight ==
    {j \in 1..Len(log) :
        /\ log[j].ev = "call"
        /\ ~\E k \in (j + 1)..Len(log) :
              /\ log[k].ev \in {"return", "raise"}
              /\ log[k].name = log[j].name
              /\ log[k].step = log[j].step}

\* C16: at most one activity call of the run is pending at any time, and a call
\* is scheduled only when no other is pending; within step s get_tool_for_step
\* returns before get_ingredients_for_step is scheduled, which returns before
\* use_tool is scheduled; no call of step s + 1 is scheduled before the result
\* of use_tool for step s has been recorded (the step_complete write of s).
C16_StrictlySequential ==
    /\ Cardinality(InFlight) <= 1
    /\ \A k \in 1..Len(log) :
        log[k].ev = "call" =>
            \A j \in 1..(k - 1) :
                log[j].ev = "call" =>
                    \E m \in (j + 1)..(k - 1) :
                        log[m] = Returned(log[j].name, log[j].step)
    /\ \A s \in 0..(Len(plan) - 1) :
        /\ InLog(Scheduled("get_ingredients_for_step", s)) =>
              Before(Returned("get_tool_for_step", s),
                     Scheduled("get_ingredients_for_step", s))
        /\ InLog(Scheduled("use_tool", s)) =>
              Before(Returned("get_ingredients_for_step", s), Scheduled("use_tool", s))
        /\ \A k \in 1..Len(log) :
              log[k].ev = "call" /\ log[k].step = s + 1 =>
                  /\ Before(Returned("use_tool", s), log[k])
                  /\ Before([ev |-> "phase", name |-> "step_complete", step |-> s], log[k])

\* use_tool of the second step is pending, the first step fully behind it
C16_Witness ==
    /\ pc = "use_tool"
    /\ i = 1
    /\ Cardinality(InFlight) = 1
    /\ InLog(Returned("use_tool", 0))
    /\ InLog(Returned("get_ingredients_for_step", 1))

\* C17: the plan is stored in the same step in which the status leaves
\* "planning": a snapshot has an empty plan exactly when its status is
\* "planning", and the step that makes the plan non-empty is the step that
\* takes the status from "planning" to "executing".
C17_PlanSetWithExecuting ==
    /\ [](\A s \in {get_state} \cup {snap[k] : k \in 1..Len(snap)} :
            (s.status = "planning") <=> (s.plan = <<>>))
    /\ [][(state.plan = <<>> /\ state'.plan # <<>>) <=>
          (state.status = "planning" /\ state'.status = "executing")]_vars

\* the submitter's last snapshot is from planning, the state is executing
C17_Witness ==
    /\ snap # None
    /\ snap[1].status = "planning"
    /\ snap[1].plan = <<>>
    /\ get_state.status = "executing"
    /\ Len(get_state.plan) = 4
    /\ pc = "get_tool_for_step"

\* C18: once a snapshot has shown a non-empty plan, the state and every later
\* snapshot carry that same plan, step for step, up to and after completion.
C18_PlanImmutable ==
    /\ [](snap # None /\ snap[1].plan # <<>> => get_state.plan = snap[1].plan)
    /\ [][state.plan # <<>> => state'.plan = state.plan]_vars

\* the plan was seen while executing and the run has completed since
C18_Witness ==
    /\ snap # None
    /\ snap[1].status = "executing"
    /\ Len(snap[1].plan) = 4
    /\ get_state.status = "completed"
    /\ get_state.plan = snap[1].plan

\* C19: every snapshot whose status is not "planning" has a plan of 3 to 6
\* steps, whatever response get_plan accepted.
C19_PlanLength ==
    get_state.status # "planning" =>
        Len(get_state.plan) >= 3 /\ Len(get_state.plan) <= 6

\* the values written to step_status under step index s, in the order written
PhasesOf(s) ==
    LET F[k \in 0..Len(log)] ==
            IF k = 0 THEN <<>>
            ELSE IF log[k].ev = "phase" /\ log[k].step = s
                 THEN Append(F[k - 1], log[k].name)
                 ELSE F[k - 1]
    IN  F[Len(log)]

StepCycle == <<"selecting_tool", "using_tool", "step_complete">>

\* position of a step_status value in the cycle of a step
PhaseRank(p) ==
    CASE p = "" -> 0
      [] p = "selecting_tool" -> 1
      [] p = "using_tool" -> 2
      [] p = "step_complete" -> 3

\* C20: the writes to step_status made under step s are, in order,
\* selecting_tool, using_tool, step_complete, each once: a prefix of that cycle
\* while s is the current step, the whole cycle once s is completed (followed
\* only by the closing "" when s is the last step of a completed run); the
\* writes of step s all come before those of step s + 1; the field holds the
\* last value written; and between two snapshots of one step of an executing
\* run step_status never moves backward.
C20_PhaseCycle ==
    /\ [](\A s \in 0..(Len(plan) - 1) :
            /\ \/ IsPrefix(PhasesOf(s), StepCycle)
               \/ /\ state.is_complete
                  /\ s = Len(plan) - 1
                  /\ PhasesOf(s) = Append(StepCycle, "")
            /\ s < Len(state.completed_steps) => IsPrefix(StepCycle, PhasesOf(s))
            /\ s = i /\ state.status = "executing" =>
                  /\ PhasesOf(s) # <<>>
                  /\ PhasesOf(s)[1] = "selecting_tool"
                  /\ PhasesOf(s)[Len(PhasesOf(s))] = state.step_status
            /\ s > i => PhasesOf(s) = <<>>)
    /\ [](\A j, k \in 1..Len(log) :
            j < k /\ log[j].ev = "phase" /\ log[k].ev = "phase" =>
                log[j].step <= log[k].step)
    /\ [][state.status = "executing" /\ state'.status = "executing"
            /\ state'.current_step_index = state.current_step_index
          => PhaseRank(state'.step_status) >= PhaseRank(state.step_status)]_vars

\* a four-step run completed: the last step went through the whole cycle
C20_Witness ==
    /\ state.is_complete
    /\ Len(plan) = 4
    /\ PhasesOf(2) = StepCycle
    /\ PhasesOf(3) = Append(StepCycle, "")

\* xs without the repetitions of its elements, first occurrences kept in order
Dedup(xs) ==
    SelectSeq([k \in 1..Len(xs) |->
                  IF \E j \in 1..(k - 1) : xs[j] = xs[k] THEN None ELSE Some(xs[k])],
              LAMBDA e : e # None)

\* the elements of the lists of xss, in order
Flatten(xss) ==
    LET F[k \in 0..Len(xss)] == IF k = 0 THEN <<>> ELSE F[k - 1] \o xss[k]
    IN  F[Len(xss)]

\* the one-element tuples of xs unwrapped
Unwrap(xs) == [k \in 1..Len(xs) |-> xs[k][1]]

\* C21: in every snapshot used_tools is step_tools with repetitions removed
\* (first occurrences, in order) and used_ingredients is the concatenation of
\* step_ingredients with repetitions removed the same way; neither has a
\* repeated element.
C21_UsedAreDeduped ==
    \A s \in {get_state} \cup {snap[k] : k \in 1..Len(snap)} :
        /\ s.used_tools = Unwrap(Dedup(s.step_tools))
        /\ s.used_ingredients = Unwrap(Dedup(Flatten(s.step_ingredients)))
        /\ \A j, k \in 1..Len(s.used_tools) : j # k => s.used_tools[j] # s.used_tools[k]
        /\ \A j, k \in 1..Len(s.used_ingredients) :
              j # k => s.used_ingredients[j] # s.used_ingredients[k]

\* a tool and an ingredient were each used by two steps
C21_Witness ==
    /\ Len(get_state.step_tools) = 3
    /\ get_state.step_tools[1] = get_state.step_tools[3]
    /\ Len(get_state.used_tools) = 2
    /\ Len(Flatten(get_state.step_ingredients)) > Len(get_state.used_ingredients)
    /\ Len(get_state.used_ingredients) >= 2

\* C22: every snapshot with status "completed" has no current step, tool or
\* tool result, no current ingredients, and is_complete true; is_complete is
\* true in no snapshot with another status.
C22_CompletedIsCleared ==
    \A s \in {get_state} \cup {snap[k] : k \in 1..Len(snap)} :
        /\ s.status = "completed" =>
              /\ s.current_step = None
              /\ s.current_tool = None
              /\ s.current_tool_result = None
              /\ s.current_ingredients = <<>>
              /\ s.is_complete
        /\ s.is_complete => s.status = "completed"

\* the submitter holds the snapshot of a completed four-step run
C22_Witness ==
    /\ snap # None
    /\ snap[1].status = "completed"
    /\ snap[1].is_complete
    /\ Len(snap[1].completed_steps) = 4
    /\ snap[1].current_tool_result = None
    /\ obs_pc = "result"

\* C23: once the status is "completed" no field of the state changes any more,
\* so the state and every later snapshot equal a snapshot that showed
\* "completed"; is_complete, once true, stays true, it turns true only in the
\* step that sets the status to "completed", and a run that reached its end has
\* it true.
C23_CompletedIsTerminal ==
    /\ [](snap # None /\ snap[1].status = "completed" => get_state = snap[1])
    /\ [](pc = "done" => state.is_complete)
    /\ [][state.status = "completed" => state' = state /\ pc' = pc /\ result' = result]_vars
    /\ [][state.is_complete' # state.is_complete =>
            /\ ~state.is_complete
            /\ state.status = "executing"
            /\ state'.status = "completed"]_vars

\* the submitter took the summary after a snapshot of the completed run
C23_Witness ==
    /\ snap # None
    /\ snap[1].status = "completed"
    /\ Len(snap[1].completed_steps) = 2
    /\ obs_pc = "done"
    /\ received = result
    /\ get_state = snap[1]

\* the text of s after its first occurrence of sub (s itself if there is none)
AfterText(s, sub) ==
    IF Contains(s, sub)
    THEN LET k == CHOOSE k \in 1..Len(s) :
                     /\ SubSeq(s, k, k + Len(sub) - 1) = sub
                     /\ \A j \in 1..(k - 1) : SubSeq(s, j, j + Len(sub) - 1) # sub
         IN  SubSeq(s, k + Len(sub), Len(s))
    ELSE s

\* the pieces of s between the occurrences of ", "
SplitList(s) ==
    LET parts == Split(s, ",")
    IN  [k \in 1..Len(parts) |->
            IF k = 1 THEN parts[k] ELSE SubSeq(parts[k], 2, Len(parts[k]))]

\* C24: the result of a completed run is "Cooked <recipe> using <tools>" where
\* <recipe> is the submitted recipe and <tools>, read back from the string,
\* are the used_tools of the final snapshot in the same order, at least one.
C24_SummaryListsUsedTools ==
    pc = "done" =>
        /\ result.kind = "summary"
        /\ StartsWith(result.value, "Cooked " \o input.recipe \o " using ")
        /\ SplitList(AfterText(result.value, " using ")) = get_state.used_tools
        /\ Len(get_state.used_tools) >= 1
        /\ get_state.used_tools[1] = get_state.step_tools[1]

\* a completed run that used three different tools
C24_Witness ==
    /\ pc = "done"
    /\ result.kind = "summary"
    /\ Len(get_state.used_tools) = 3
    /\ Len(get_state.step_tools) = 4

\* the recorded call is a get_ingredients_for_step call that sent a prompt
PromptedCall == call # None /\ call[1].name = "get_ingredients_for_step" /\ call[1].prompt # None

\* C25: the prompt built for step index k contains the steps at indices
\* 0..k-1 and contains neither the step at index k nor any step after it.
C25_ContextIsolation ==
    PromptedCall =>
        LET c == call[1]
            k == c.inp.step_index
            p == c.inp.plan_context
        IN  /\ \A j \in 0..(k - 1) : Contains(c.prompt[1], p[j + 1])
            /\ \A j \in k..(Len(p) - 1) : ~Contains(c.prompt[1], p[j + 1])

\* C25 as the code has it: for k > 0 the prompt lists the steps at indices
\* 0..k-1, and only those, as "Step j+1: <text>" under the completed steps; the
\* step at index k is in the prompt as the step to select for (and for k > 0 as
\* "Current step being executed: Step k+1: <text>"); no step after index k is
\* in the prompt; for k = 0 the prompt has no context block.
C25_PreviousStepsOnly ==
    PromptedCall =>
        LET c == call[1]
            k == c.inp.step_index
            p == c.inp.plan_context
            text == c.prompt[1]
        IN  /\ Contains(text, "cooking step: \"" \o p[k + 1] \o "\"\n")
            /\ \A j \in (k + 1)..(Len(p) - 1) : ~Contains(text, p[j + 1])
            /\ \A j \in 0..(Len(p) - 1) : ~Contains(text, ", Step " \o Str(j + 1) \o ": " \o p[k + 1])
            /\ k = 0 => ~Contains(text, "COOKING CONTEXT") /\ ~Contains(text, "Step 1: ")
            /\ k > 0 =>
                /\ Contains(text, "Steps already completed: Step 1: " \o p[1])
                /\ \A j \in 0..(k - 1) :
                      Contains(text, "Step " \o Str(j + 1) \o ": " \o p[j + 1]
                                     \o (IF j = k - 1 THEN "\n" ELSE ", "))
                /\ Contains(text, "\n\nCurrent step being executed: Step "
                                  \o Str(k + 1) \o ": " \o p[k + 1] \o "\n")
                /\ ~Contains(text, ", Step " \o Str(k + 1) \o ": ")

\* the prompt for the middle step of a three-step plan was sent
C25_Witness ==
    /\ PromptedCall
    /\ call[1].inp.plan_context = LlmPlanSteps
    /\ call[1].inp.step_index = 1
    /\ call[1].oracle.kind = "text"

\* the catalogs of the end-to-end scenario
ScenarioData ==
    [tools |-> Some(<<"Skillet", "Oven", "Chopping Board">>),
     ingredients |-> Some(<<"Chicken Breast", "Salt", "Pepper">>)]

\* the run is the scenario's: its recipe and catalogs, and every decision made
\* so far is the one the strategies make without the oracle
ScenarioRun ==
    /\ input.recipe = "chicken parmesan"
    /\ data = ScenarioData
    /\ get_state.status # "planning"
    /\ get_state.plan = _get_mock_plan(input.recipe)
    /\ \A k \in 1..Len(get_state.step_tools) :
        /\ get_state.step_tools[k] = _get_mock_tool(get_state.plan[k])
        /\ get_state.step_ingredients[k] = _get_mock_ingredients(get_state.plan[k])

\* C26: in the end-to-end scenario (catalogs of ScenarioData, no oracle, recipe
\* "chicken parmesan") the plan is the fallback plan of 4 steps, the tool of
\* every step is in the tool catalog, the ingredients of every step are in the
\* ingredient catalog, and the completed run has status "completed",
\* is_complete true and a summary naming the recipe and at least one tool.
C26_EndToEndScenario ==
    ScenarioRun =>
        /\ Len(get_state.plan) = 4
        /\ \A k \in 1..Len(get_state.step_tools) :
            /\ InList(get_state.step_tools[k], data.tools[1])
            /\ \A j \in 1..Len(get_state.step_ingredients[k]) :
                  InList(get_state.step_ingredients[k][j], data.ingredients[1])
        /\ pc = "done" =>
            /\ get_state.status = "completed"
            /\ get_state.is_complete
            /\ Contains(result.value, "chicken parmesan")
            /\ Len(get_state.used_tools) >= 1

\* C27: a strategy call that exceeds its timeout is answered from the rule
\* table and the run goes on: the run has not failed, and the timed-out call
\* has returned a value to run.
C27_TimeoutFallsBack ==
    \A k \in 1..Len(log) :
        log[k].ev = "timeout" =>
            /\ pc # "failed"
            /\ result.kind # "failure"
            /\ InLog(Returned(log[k].name, log[k].step))

\* what the code does instead: a strategy timeout ends the run with that
\* call's failure, no value returned, the state left as it was
C27_TimeoutFailsRun ==
    \A k \in 1..Len(log) :
        log[k].ev = "timeout" =>
            /\ pc = "failed"
            /\ result = Failure(log[k].name)
            /\ ~InLog(Returned(log[k].name, log[k].step))
            /\ ~get_state.is_complete

\* C28: a query that raises leaves the submitter in its polling loop, holding
\* the snapshot it had, with the next query enabled, however many queries
\* failed before; no query, failed or answered, changes the state, position,
\* log or outcome of the run.
C28_ReadFailureIsTransient ==
    /\ [](query_error => obs_pc = "poll" /\ ENABLED Poll /\ ENABLED PollFails)
    /\ [][PollFails => obs_pc' = "poll" /\ snap' = snap /\ received' = received]_vars
    /\ [][PollFails \/ Poll =>
            UNCHANGED <<input, data, worker, state, pc, tools, ingredients, tool,
                        step_ingredients, tool_input, result, log>>]_vars

\* a query failed while the submitter was waiting on a step in using_tool
C28_Witness ==
    /\ query_error
    /\ obs_pc = "poll"
    /\ snap # None
    /\ snap[1].step_status = "using_tool"
    /\ pc = "use_tool"

\* C30: the step that records the result of use_tool for step k leaves the run
\* at a point where a query returns step_status "step_complete" for step k,
\* with that step's tool and result, before step k + 1 starts or the status
\* becomes "completed".
C30_StepCompleteObservable ==
    [][Len(state'.completed_steps) > Len(state.completed_steps) =>
          /\ get_state'.step_status = "step_complete"
          /\ get_state'.current_step_index = state.current_step_index
          /\ get_state'.current_tool_result # None]_vars

\* what the code does instead: no state a query can be answered in, and no
\* snapshot, has step_status "step_complete", although every recorded step
\* wrote it
C30_StepCompleteNeverVisible ==
    /\ get_state.step_status # "step_complete"
    /\ snap # None => snap[1].step_status # "step_complete"
    /\ \A k \in 1..Len(get_state.completed_steps) :
          InLog([ev |-> "phase", name |-> "step_complete", step |-> k - 1])


----------------------------------------------------------------------------
\* C31: while status is executing, current_tool, current_ingredients and
\* current_tool_result are none/empty until the selection (or the executor
\* result) for the step at current_step_index has been returned, and are that
\* step's values afterwards; nothing of step i-1 is visible at index i.
C31_ScratchDescribesCurrentStep ==
    state.status = "executing" =>
        /\ IF InLog(Returned("get_tool_for_step", i))
           THEN get_state.current_tool = tool
           ELSE get_state.current_tool = None
        /\ IF InLog(Returned("get_ingredients_for_step", i))
           THEN get_state.current_ingredients = step_ingredients
           ELSE get_state.current_ingredients = <<>>
        /\ IF InLog(Returned("use_tool", i))
           THEN get_state.current_tool_result # None
           ELSE get_state.current_tool_result = None

\* what does hold: the scratch fields are reset only at the end of the run, so
\* from the second step on they show the previous step's tool, ingredients and
\* result until the current step's own values replace them
C31_ScratchIsStale ==
    (state.status = "executing" /\ i > 0 /\ pc = "get_tool_for_step") =>
        /\ get_state.current_tool = Some(get_state.step_tools[i])
        /\ get_state.current_ingredients = get_state.step_ingredients[i]
        /\ get_state.current_tool_result # None
        /\ get_state.step_status = "selecting_tool"

----------------------------------------------------------------------------
\* the number of entries of the log equal to e
Count(e) == Cardinality({k \in 1..Len(log) : log[k] = e})

\* C32: with activities executed more than once before an outcome is delivered,
\* every plan step is recorded exactly once: completed_steps, step_tools and
\* step_ingredients have one entry per delivered use_tool result, each step's
\* result is delivered at most once, and entry k is plan step k.
C32_RecordedExactlyOnce ==
    /\ Len(get_state.step_tools) = Len(get_state.completed_steps)
    /\ Len(get_state.step_ingredients) = Len(get_state.completed_steps)
    /\ \A k \in 0..(Len(plan) - 1) :
          Count(Returned("use_tool", k)) = (IF k < Len(get_state.completed_steps) THEN 1 ELSE 0)
    /\ \A k \in 1..Len(get_state.completed_steps) : get_state.completed_steps[k] = plan[k]
    /\ Len(get_state.completed_steps) <= Len(plan)

\* two steps recorded, the executor call of the second one delivered after
\* MaxAttempts executions, and the next tool selection on its second execution
C32_Witness ==
    /\ Len(get_state.completed_steps) = 2
    /\ attempts.delivered = MaxAttempts
    /\ InLog(Returned("use_tool", 1))
    /\ pc = "get_tool_for_step"
    /\ attempts.pending = 2

----------------------------------------------------------------------------
\* C33: whichever of the repository's workers serves the run, every activity
\* the run waits for is registered on that worker.
C33_WorkersRegisterAll == pc \in ActivityNames => pc \in worker.activities

\* what does hold: the run is stuck only at get_ingredients_for_step of its
\* first step, and on every worker but the one of worker.py
C33_StuckAtIngredientSelection ==
    (pc \in ActivityNames /\ pc \notin worker.activities) =>
        /\ pc = "get_ingredients_for_step"
        /\ worker.file # "worker.py"
        /\ get_state.current_step_index = 0
        /\ get_state.completed_steps = <<>>
        /\ ~ ENABLED RunNext

----------------------------------------------------------------------------
\* C34: the executor call of step i carries the tool selected for step i, the
\* ingredients selected for step i (the list recorded afterwards in
\* step_ingredients[i]) and the text of step i.
C34_ExecutorGetsStepSelection ==
    pc = "use_tool" =>
        /\ tool_input[1].tool_name = get_state.current_tool[1]
        /\ tool_input[1].step_description = plan[i + 1]
        /\ tool_input[1].ingredients = get_state.current_ingredients
        /\ tool_input[1].ingredients = step_ingredients

\* what does hold: the tool and the step text are those of step i, and the
\* ingredients handed over are the whole catalog
C34_ExecutorGetsCatalog ==
    pc = "use_tool" =>
        /\ tool_input[1].tool_name = get_state.current_tool[1]
        /\ tool_input[1].step_description = plan[i + 1]
        /\ tool_input[1].ingredients = ingredients
        /\ ingredients = data.ingredients[1]

----------------------------------------------------------------------------
\* C35: in every snapshot completed_steps is the prefix of plan of its own
\* length: steps are completed in plan order, none skipped, none twice.
C35_CompletedIsPlanPrefix ==
    /\ Len(get_state.completed_steps) <= Len(get_state.plan)
    /\ get_state.completed_steps = SubSeq(get_state.plan, 1, Len(get_state.completed_steps))
    /\ get_state.status = "executing" /\ pc # "failed" =>
          Len(get_state.completed_steps) = get_state.current_step_index

\* two of four steps completed, the third in flight
C35_Witness ==
    /\ Len(get_state.plan) = 4
    /\ Len(get_state.completed_steps) = 2
    /\ get_state.current_step = Some(get_state.plan[3])
    /\ pc = "use_tool"

----------------------------------------------------------------------------
\* C36: a step whose ingredient selection is empty is executed and completed
\* like any other: from its using_tool phase the executor is called, and when
\* the result comes back the step and its tool are recorded, an empty entry is
\* appended to step_ingredients and used_ingredients stays as it was.
C36_EmptySelectionStillCompletes ==
    /\ [][(pc = "sleep" /\ state.current_ingredients = <<>> /\ pc' # pc) =>
             (pc' = "use_tool" /\ log' = Append(log, Scheduled("use_tool", i)))]_vars
    /\ [][(pc = "use_tool" /\ state.current_ingredients = <<>>
              /\ InLog(Returned("get_ingredients_for_step", i))
              /\ pc' \notin {"use_tool", "failed"}) =>
             /\ state'.completed_steps = Append(state.completed_steps, plan[i + 1])
             /\ state'.step_tools = Append(state.step_tools, state.current_tool[1])
             /\ state'.step_ingredients = Append(state.step_ingredients, <<>>)
             /\ state'.used_ingredients = state.used_ingredients
             /\ state'.used_tools = AppendNew(state.used_tools, state.current_tool[1])]_vars

\* the second step was completed with no ingredients after a first step that
\* used some, the oracle being absent and no fallback keyword matching
C36_Witness ==
    /\ Len(get_state.completed_steps) = 2
    /\ get_state.step_ingredients[2] = <<>>
    /\ get_state.step_ingredients[1] # <<>>
    /\ get_state.used_ingredients = get_state.step_ingredients[1]
    /\ Len(get_state.step_tools) = 2
    /\ _get_mock_ingredients(plan[2]) = <<>>

----------------------------------------------------------------------------
\* the j-th smallest member of the set of numbers S
Nth(S, j) == CHOOSE k \in S : Cardinality({m \in S : m < k}) = j - 1

\* the oracle answered the call with some text
Answered(name) == call # None /\ call[1].name = name /\ HasContent(call[1].oracle)

\* the comma-separated entries of a response, each without the blanks round it
Entries(content) == Let(Split(content, ","), LAMBDA parts : [k \in 1..Len(parts) |-> Strip(parts[k])])

\* C37: when the oracle answers, the ingredient strategy returns the
\* comma-separated entries of the answer that are members of the catalog, in
\* the order of the answer, the others dropped; with no member among them it
\* returns what the fallback table gives for the step.
C37_CatalogIntersection ==
    Answered("get_ingredients_for_step") =>
        LET c == call[1]
            entries == Entries(c.oracle.content)
            kept == {k \in 1..Len(entries) : entries[k] \in SeqToSet(c.inp.ingredients)}
        IN  /\ ~c.result.exc
            /\ IF kept = {}
               THEN c.result.val = _get_mock_ingredients(c.inp.step)
               ELSE /\ Len(c.result.val) = Cardinality(kept)
                    /\ \A j \in 1..Len(c.result.val) : c.result.val[j] = entries[Nth(kept, j)]

\* "Salt, Saffron,Pepper" against a catalog with Salt and Pepper but no Saffron,
\* for a step whose fallback is something else
C37_Witness ==
    /\ Answered("get_ingredients_for_step")
    /\ call[1].oracle.content = "Salt, Saffron,Pepper"
    /\ call[1].result = Return(<<"Salt", "Pepper">>)
    /\ _get_mock_ingredients(call[1].inp.step) # <<"Salt", "Pepper">>

----------------------------------------------------------------------------
\* C38: the tool strategy accepts the oracle's answer only if the returned
\* string is, byte for byte, an entry of the tool catalog; any other answer is
\* rejected and the fallback rule table decides.
C38_ByteExactAnswerOnly ==
    Answered("get_tool_for_step") =>
        LET c == call[1]
        IN  c.result = Return(IF c.oracle.content \in SeqToSet(c.inp.tools)
                              THEN c.oracle.content
                              ELSE _get_mock_tool(c.inp.step))

\* C38 as the code has it: the answer is compared after the white space round
\* it is removed; it is accepted, and returned without that white space, only
\* if what is left is byte for byte a catalog entry, and otherwise (other case,
\* extra words, unknown tool, nothing left) the fallback rule table decides.
C38_ExactAfterTrimming ==
    Answered("get_tool_for_step") =>
        LET c == call[1]
            answer == Strip(c.oracle.content)
        IN  c.result = Return(IF \E k \in 1..Len(c.inp.tools) : c.inp.tools[k] = answer
                              THEN answer
                              ELSE _get_mock_tool(c.inp.step))

\* the miscased answer "oven" is rejected with Oven in the catalog, and the
\* rule table gives another tool for the step
C38_Witness ==
    /\ Answered("get_tool_for_step")
    /\ call[1].oracle.content = "oven"
    /\ InList("Oven", call[1].inp.tools)
    /\ call[1].result = Return(_get_mock_tool(call[1].inp.step))
    /\ call[1].result.val # "Oven"

----------------------------------------------------------------------------
\* the length of the marker a line begins with: "-" for a bullet, digits and a
\* full stop for a number; 0 when the line begins with neither
MarkerLen(line) ==
    IF StartsWith(line, "-") THEN 1
    ELSE LET digits == {n \in 1..Len(line) : \A k \in 1..n : CharIn(Chr(line, k), Digits)}
             n == Cardinality(digits)
         IN  IF n > 0 /\ n < Len(line) /\ Chr(line, n + 1) = "." THEN n + 1 ELSE 0

\* the step a line of the answer stands for: the line without its marker
MarkedStep(raw) ==
    Let(Strip(raw), LAMBDA line :
        IF MarkerLen(line) > 0 /\ Len(Strip(SubSeq(line, MarkerLen(line) + 1, Len(line)))) > 0
        THEN Some(Strip(SubSeq(line, MarkerLen(line) + 1, Len(line))))
        ELSE None)

\* C39: of an answer to the plan prompt, every line that begins with a number
\* or bullet marker gives one step, the line with only its marker removed;
\* other lines give nothing; the answer is used only if that leaves a step,
\* and otherwise the fallback plan is.
C39_MarkerOnlyRemoved ==
    Answered("get_plan") =>
        LET c == call[1]
            steps == MapSome(Split(c.oracle.content, "\n"), MarkedStep)
        IN  c.result = Return(IF Len(steps) > 0 THEN steps ELSE _get_mock_plan(c.inp.recipe))

\* what does hold for the answers that are numbered lists with no other full
\* stop than the marker's: each line gives its step
C39_NumberedListsParse ==
    \A n \in 1..MaxLlmPlanLen :
        (Answered("get_plan") /\ call[1].oracle.content = NumberedList(n)) =>
            call[1].result = Return(SubSeq(LlmPlanSteps, 1, n))

----------------------------------------------------------------------------
\* C40: the state of the run is a function of the recorded outcomes of its
\* calls: at every point the run, replayed from its start against the history
\* recorded so far, is in the same state, waits at the same await, and has the
\* same result; the history only grows, by one outcome per step of the run, so
\* two executions given the same recipe and outcomes pass through the same
\* states and return the same summary.
C40_StateFollowsHistory ==
    /\ [](pc # "start" =>
            Let(Replay(input.recipe, history), LAMBDA R :
                /\ get_state = R.state
                /\ pc = R.pc
                /\ result = R.result
                /\ (pc \notin {"done", "failed"} =>
                       /\ tools = R.tools
                       /\ ingredients = R.ingredients)))
    /\ [][\/ history' = history /\ (pc = "start" \/ state' = state)
          \/ /\ Len(history') = Len(history) + 1
             /\ SubSeq(history', 1, Len(history)) = history]_vars

\* a completed run of four steps some of whose calls were executed twice: the
\* replay of its nineteen recorded outcomes returns its summary
C40_Witness ==
    /\ pc = "done"
    /\ Len(get_state.completed_steps) = 4
    /\ attempts.delivered = 2
    /\ Len(history) = 3 + 4 * 4
    /\ result = Replay(input.recipe, history).result
    /\ result.kind = "summary"

====
